---------------------------- MODULE Spec2Model ----------------------------
(***************************************************************************)
(* Model of the three Lambda handlers of aws-image-service:                *)
(*   src/src/upload_handler.py  POST /upload                               *)
(*   src/get_handler.py         GET  /images/{id}                          *)
(*   src/list_handler.py        GET  /images                               *)
(* Byte strings and Python str values are sequences of code points         *)
(* (0..255).  One action models one whole handler invocation.              *)
(***************************************************************************)
EXTENDS Integers, Sequences, FiniteSets, TLC

(***************************************************************************)
(* Bytes and the Python bytes/str methods the handlers use.                *)
(***************************************************************************)
CR == 13
LF == 10
CRLF == <<13, 10>>

\* str.isspace / the bytes that bytes.strip() removes / regex \s on ASCII
IsSpace(c) == c \in 9..13 \/ c = 32

Min(a, b) == IF a < b THEN a ELSE b

\* s[i:] (1-based i)
From(s, i) == SubSeq(s, i, Len(s))

\* bytes.startswith, at offset i (1-based): s[i-1:].startswith(p)
StartsAt(s, p, i) ==
    /\ i + Len(p) - 1 <= Len(s)
    /\ \A k \in 1..Len(p) : s[i + k - 1] = p[k]

StartsWith(s, p) == StartsAt(s, p, 1)

EndsWith(s, p) == Len(p) <= Len(s) /\ StartsAt(s, p, Len(s) - Len(p) + 1)

\* bytes.find(p, i-1) + 1 : the first index >= i where p occurs, 0 when none
Find(s, p, i) ==
    LET hits == {k \in i..(Len(s) - Len(p) + 1) : StartsAt(s, p, k)}
    IN  IF hits = {} THEN 0
        ELSE CHOOSE k \in hits : \A j \in hits : k <= j

\* p in s
Contains(s, p) == Find(s, p, 1) # 0

\* bytes.split(sep): the pieces between the non-overlapping occurrences
RECURSIVE Split(_, _)
Split(s, sep) ==
    LET i == Find(s, sep, 1)
    IN  IF i = 0 THEN <<s>>
        ELSE <<SubSeq(s, 1, i - 1)>> \o Split(From(s, i + Len(sep)), sep)

\* bytes.lstrip() / rstrip() / strip()
RECURSIVE LStrip(_)
LStrip(s) == IF s # <<>> /\ IsSpace(s[1]) THEN LStrip(Tail(s)) ELSE s

RECURSIVE RStrip(_)
RStrip(s) ==
    IF s # <<>> /\ IsSpace(s[Len(s)]) THEN RStrip(SubSeq(s, 1, Len(s) - 1)) ELSE s

Strip(s) == LStrip(RStrip(s))

\* str.strip('"')
RECURSIVE StripQuotes(_)
StripQuotes(s) ==
    IF s # <<>> /\ s[1] = 34 THEN StripQuotes(Tail(s))
    ELSE IF s # <<>> /\ s[Len(s)] = 34 THEN StripQuotes(SubSeq(s, 1, Len(s) - 1))
    ELSE s

\* str.lower() on ASCII
LowerChar(c) == IF c \in 65..90 THEN c + 32 ELSE c

Lower(s) == [i \in 1..Len(s) |-> LowerChar(s[i])]

\* the end index of the longest run of characters outside Stop that starts at
\* s[i] (i - 1 when the run is empty): a regex class [^...]* matched greedily
RECURSIVE RunEnd(_, _, _)
RunEnd(s, i, Stop) ==
    IF i <= Len(s) /\ s[i] \notin Stop THEN RunEnd(s, i + 1, Stop) ELSE i - 1

\* the number of occurrences of character c in s[1..n]
RECURSIVE CountChar(_, _, _)
CountChar(s, c, n) ==
    IF n = 0 THEN 0 ELSE (IF s[n] = c THEN 1 ELSE 0) + CountChar(s, c, n - 1)

\* file.readline() repeated to EOF: the lines, each with its LF
RECURSIVE Lines(_)
Lines(s) ==
    IF s = <<>> THEN <<>>
    ELSE LET i == Find(s, <<LF>>, 1)
         IN  IF i = 0 THEN <<s>>
             ELSE <<SubSeq(s, 1, i)>> \o Lines(From(s, i + 1))


(***************************************************************************)
(* Literals of the source, as code point sequences.                        *)
(***************************************************************************)
\* the printable ASCII characters 32..95 and 97..126
AsciiLow == " !\"#$%&'()*+,-./0123456789:;<=>?@ABCDEFGHIJKLMNOPQRSTUVWXYZ[\\]^_"
AsciiHigh == "abcdefghijklmnopqrstuvwxyz{|}~"

\* ord() of a one-character string
Ord(ch) ==
    IF \E i \in 1..Len(AsciiLow) : SubSeq(AsciiLow, i, i) = ch
    THEN 31 + (CHOOSE i \in 1..Len(AsciiLow) : SubSeq(AsciiLow, i, i) = ch)
    ELSE 96 + (CHOOSE i \in 1..Len(AsciiHigh) : SubSeq(AsciiHigh, i, i) = ch)

\* the code points of a printable ASCII literal
B(str) == [i \in 1..Len(str) |-> Ord(SubSeq(str, i, i))]

MULTIPART_FORM_DATA == B("multipart/form-data")
BOUNDARY_EQ == B("boundary=")
DASHDASH == B("--")
FILENAME_EQ == B("filename=")
FILENAME_EQ_QUOTE == B("filename=\"")
CONTENT_TYPE_COLON == B("content-type:")
OCTET_STREAM == B("application/octet-stream")
TEXT_PLAIN == B("text/plain")
BIN == B("bin")
DOT == B(".")
IMAGES_PREFIX == B("images/")
MULTIPART_SLASH == B("multipart/")
CONTENT_DISPOSITION == B("content-disposition")
CONTENT_TYPE == B("content-type")
NAME == B("name")
FILENAME == B("filename")
BOUNDARY == B("boundary")
WhiteSpace == {32, 9, 10, 11, 12, 13}
NotWhiteSpace == (0..255) \ WhiteSpace

\* content_type_map
content_type_map ==
    {<<B("jpg"), B("image/jpeg")>>, <<B("jpeg"), B("image/jpeg")>>,
     <<B("png"), B("image/png")>>, <<B("gif"), B("image/gif")>>,
     <<B("webp"), B("image/webp")>>, <<B("bmp"), B("image/bmp")>>,
     <<B("svg"), B("image/svg+xml")>>, <<B("pdf"), B("application/pdf")>>}

\* content_type_map.get(ext, default)
MapGet(map, key, default) ==
    IF \E e \in map : e[1] = key
    THEN (CHOOSE e \in map : e[1] = key)[2]
    ELSE default

\* An absent value (Python None / a regex that did not match)
None == [tag |-> "None"]
Some(v) == [tag |-> "Some", val |-> v]
IsNone(o) == o.tag = "None"

\* Python truthiness of an optional byte string: None and b'' are falsy
Truthy(o) == o.tag = "Some" /\ o.val # <<>>

(***************************************************************************)
(* The regular expressions of upload_handler.py.  re.search returns the    *)
(* leftmost match; each operator returns group(1) or None.                 *)
(***************************************************************************)
\* re.search(r'boundary=([^;\s]+)', content_type)
RECURSIVE BoundarySearch(_, _)
BoundarySearch(s, i) ==
    LET at == Find(s, BOUNDARY_EQ, i)
        b == at + Len(BOUNDARY_EQ)
        e == RunEnd(s, b, WhiteSpace \cup {59})
    IN  IF at = 0 THEN None
        ELSE IF e >= b THEN Some(SubSeq(s, b, e))
        ELSE BoundarySearch(s, at + 1)

\* re.search(r'filename="([^"]*)"', headers_str)
RECURSIVE FilenameQuotedSearch(_, _)
FilenameQuotedSearch(s, i) ==
    LET at == Find(s, FILENAME_EQ_QUOTE, i)
        b == at + Len(FILENAME_EQ_QUOTE)
        e == RunEnd(s, b, {34})
    IN  IF at = 0 THEN None
        ELSE IF e + 1 <= Len(s) THEN Some(SubSeq(s, b, e))
        ELSE FilenameQuotedSearch(s, at + 1)

\* re.search(r"filename=([^\s;]+)", headers_str)
RECURSIVE FilenameBareSearch(_, _)
FilenameBareSearch(s, i) ==
    LET at == Find(s, FILENAME_EQ, i)
        b == at + Len(FILENAME_EQ)
        e == RunEnd(s, b, WhiteSpace \cup {59})
    IN  IF at = 0 THEN None
        ELSE IF e >= b THEN Some(SubSeq(s, b, e))
        ELSE FilenameBareSearch(s, at + 1)

\* the largest k in 0..n with k = n or w[k+1] not CR/LF, for the whitespace run
\* w = s[b..b+n-1]: how much \s* keeps when [^\r\n]+ must still match
RECURSIVE Backtrack(_, _, _)
Backtrack(s, b, k) ==
    IF k < 0 THEN -1
    ELSE IF s[b + k] \notin {CR, LF} THEN k
    ELSE Backtrack(s, b, k - 1)

\* re.search(r'Content-Type:\s*([^\r\n]+)', headers_str, re.IGNORECASE)
RECURSIVE ContentTypeSearch(_, _)
ContentTypeSearch(s, i) ==
    LET at == Find(Lower(s), CONTENT_TYPE_COLON, i)
        b == at + Len(CONTENT_TYPE_COLON)
        w == RunEnd(s, b, NotWhiteSpace)   \* end of \s*
        \* \s* is greedy; [^\r\n]+ then needs one character that is not CR/LF
        g == IF w + 1 <= Len(s) THEN w + 1
             ELSE b + Backtrack(s, b, w - b)
    IN  IF at = 0 THEN None
        ELSE IF g >= b /\ g <= Len(s)
             THEN Some(SubSeq(s, g, RunEnd(s, g, {CR, LF})))
        ELSE ContentTypeSearch(s, at + 1)


(***************************************************************************)
(* Outcomes of a step that may raise.                                      *)
(***************************************************************************)
Raise(msg) == [tag |-> "raise", msg |-> msg]
Ok(v) == [tag |-> "ok", val |-> v]

(***************************************************************************)
(* The API Gateway event.  A key of the event is absent, null, or holds a  *)
(* value: [tag |-> "absent"], [tag |-> "null"], [tag |-> "dict", d |-> f]  *)
(* with f a function from key strings to values, [tag |-> "str", val |-> s]*)
(***************************************************************************)
Absent == [tag |-> "absent"]
Null == [tag |-> "null"]
Dict(f) == [tag |-> "dict", d |-> f]
Str(s) == [tag |-> "str", val |-> s]
EmptyDict == Dict([k \in {} |-> <<>>])

\* dict.get(key, default) on a dict value
DictGet(dict, key, default) ==
    IF key \in DOMAIN dict.d THEN dict.d[key] ELSE default

\* event.get(key, {}).get(sub, default): a null value has no .get and raises
GetGet(field, sub, default) ==
    CASE field.tag = "absent" -> Ok(default)
      [] field.tag = "null" -> Raise("'NoneType' object has no attribute 'get'")
      [] OTHER -> Ok(DictGet(field, sub, default))

\* content_type = event.get('headers', {}).get('content-type', '')
\*                or event.get('headers', {}).get('Content-Type', '')
ContentTypeOf(event) ==
    LET lower == GetGet(event.headers, "content-type", <<>>)
    IN  IF lower.tag = "raise" THEN lower
        ELSE IF lower.val # <<>> THEN lower
        ELSE GetGet(event.headers, "Content-Type", <<>>)

(***************************************************************************)
(* base64, as API Gateway encodes a binary body and b64decode decodes it.  *)
(***************************************************************************)
B64Alphabet == B("ABCDEFGHIJKLMNOPQRSTUVWXYZabcdefghijklmnopqrstuvwxyz0123456789+/")
PAD == 61

B64Index(c) == (CHOOSE i \in 1..64 : B64Alphabet[i] = c) - 1

IsB64Char(c) == \E i \in 1..64 : B64Alphabet[i] = c

\* base64.b64encode(bytes)
RECURSIVE B64Encode(_)
B64Encode(bs) ==
    IF bs = <<>> THEN <<>>
    ELSE LET n == Min(3, Len(bs))
             b1 == bs[1]
             b2 == IF n >= 2 THEN bs[2] ELSE 0
             b3 == IF n >= 3 THEN bs[3] ELSE 0
             v == b1 * 65536 + b2 * 256 + b3
             c1 == B64Alphabet[(v \div 262144) + 1]
             c2 == B64Alphabet[((v \div 4096) % 64) + 1]
             c3 == IF n >= 2 THEN B64Alphabet[((v \div 64) % 64) + 1] ELSE PAD
             c4 == IF n >= 3 THEN B64Alphabet[(v % 64) + 1] ELSE PAD
         IN  <<c1, c2, c3, c4>> \o B64Encode(From(bs, n + 1))

\* the bytes of full and final groups of sextet characters
RECURSIVE B64Groups(_)
B64Groups(cs) ==
    IF cs = <<>> THEN <<>>
    ELSE LET n == Min(4, Len(cs))
             s1 == B64Index(cs[1])
             s2 == IF n >= 2 THEN B64Index(cs[2]) ELSE 0
             s3 == IF n >= 3 THEN B64Index(cs[3]) ELSE 0
             s4 == IF n >= 4 THEN B64Index(cs[4]) ELSE 0
             v == s1 * 262144 + s2 * 4096 + s3 * 64 + s4
             out == <<v \div 65536, (v \div 256) % 256, v % 256>>
         IN  SubSeq(out, 1, n - 1) \o B64Groups(From(cs, n + 1))

\* base64.b64decode(body) (validate=False): characters outside the alphabet
\* are discarded; the data characters must come padded to a multiple of four
b64decode(s) ==
    LET data == SelectSeq(s, IsB64Char)
        pads == Len(SelectSeq(s, LAMBDA c : c = PAD))
    IN  IF Len(data) % 4 = 1
        THEN Raise("Invalid base64-encoded string")
        ELSE IF Len(data) % 4 # 0 /\ (Len(data) + pads) % 4 # 0
        THEN Raise("Incorrect padding")
        ELSE Ok(B64Groups(data))

\* body = event.get('body', ''); is_base64 = event.get('isBase64Encoded', False)
\* len(body); body_bytes = b64decode(body) or body.encode('latin-1')
BodyBytesOf(event) ==
    LET body == IF event.body.tag = "absent" THEN Str(<<>>) ELSE event.body
    IN  IF body.tag = "null"
        THEN Raise("object of type 'NoneType' has no len()")
        ELSE IF event.isBase64Encoded THEN b64decode(body.val)
        ELSE IF \E i \in 1..Len(body.val) : body.val[i] > 255
        THEN Raise("'latin-1' codec can't encode character")
        ELSE Ok(body.val)


(***************************************************************************)
(* cgi.FieldStorage(fp, environ) of the Python standard library, as the    *)
(* handler calls it: CONTENT_TYPE is the request header, CONTENT_LENGTH    *)
(* the body's length, so the length limit is reached only at end of file.  *)
(***************************************************************************)
SEMI == 59
QUOTE == 34
BACKSLASH == 92

\* str.replace(old, new)
RECURSIVE Replace(_, _, _)
Replace(s, old, new) ==
    LET i == Find(s, old, 1)
    IN  IF i = 0 THEN s
        ELSE SubSeq(s, 1, i - 1) \o new \o Replace(From(s, i + Len(old)), old, new)

\* s.count(sub, 0, n): non-overlapping occurrences of sub within s[:n]
RECURSIVE CountSub(_, _, _)
CountSub(s, sub, n) ==
    LET i == Find(SubSeq(s, 1, n), sub, 1)
    IN  IF i = 0 THEN 0
        ELSE 1 + CountSub(From(SubSeq(s, 1, n), i + Len(sub)), sub, n - (i + Len(sub) - 1))

\* cgi._parseparam: the end of a parameter is a ';' outside double quotes
RECURSIVE ParamEnd(_, _)
ParamEnd(s, e) ==
    IF e > 1 /\ (CountChar(s, QUOTE, e - 1)
                 - CountSub(s, <<BACKSLASH, QUOTE>>, e - 1)) % 2 = 1
    THEN ParamEnd(s, Find(s, <<SEMI>>, e + 1))
    ELSE e

\* cgi._parseparam(s): the stripped ';'-separated fields of s
RECURSIVE ParseParam(_)
ParseParam(s) ==
    IF s = <<>> \/ s[1] # SEMI THEN <<>>
    ELSE LET t == Tail(s)
             e == ParamEnd(t, Find(t, <<SEMI>>, 1))
             end == IF e = 0 THEN Len(t) + 1 ELSE e
         IN  <<Strip(SubSeq(t, 1, end - 1))>> \o ParseParam(From(t, end))

\* one name=value option of cgi.parse_header: <<name, value>> or <<>>
HeaderOption(p) ==
    LET i == Find(p, <<61>>, 1)
        name == Lower(Strip(SubSeq(p, 1, i - 1)))
        raw == Strip(From(p, i + 1))
        value == IF Len(raw) >= 2 /\ raw[1] = QUOTE /\ raw[Len(raw)] = QUOTE
                 THEN Replace(Replace(SubSeq(raw, 2, Len(raw) - 1),
                                      <<BACKSLASH, BACKSLASH>>, <<BACKSLASH>>),
                              <<BACKSLASH, QUOTE>>, <<QUOTE>>)
                 ELSE raw
    IN  IF i = 0 THEN <<>> ELSE <<name, value>>

\* cgi.parse_header: the main value and the options, in order, of the fields
\* _parseparam gave
HeaderOf(parts) ==
    [key |-> parts[1],
     opts |-> [i \in 1..(Len(parts) - 1) |-> HeaderOption(parts[i + 1])]]

\* cgi.parse_header(line)
parse_header(line) == HeaderOf(ParseParam(<<SEMI>> \o line))

\* pdict[name] of parse_header: the last option of that name, or None
RECURSIVE PdictGet(_, _, _)
PdictGet(opts, name, i) ==
    IF i = 0 THEN None
    ELSE IF opts[i] # <<>> /\ opts[i][1] = name THEN Some(opts[i][2])
    ELSE PdictGet(opts, name, i - 1)

\* cgi.valid_boundary: ^[ -~]{0,200}[!-~]$
valid_boundary(b) ==
    /\ b # <<>>
    /\ Len(b) <= 201
    /\ \A i \in 1..Len(b) : b[i] \in 32..126
    /\ b[Len(b)] # 32

\* the value of header `name` in a part's header lines (email.parser): the
\* first line "Name: value"; the value without leading blanks and line end
RECURSIVE PartHeader(_, _, _)
PartHeader(lines, name, i) ==
    IF i > Len(lines) THEN None
    ELSE LET c == Find(lines[i], <<58>>, 1)
             field == Lower(SubSeq(lines[i], 1, c - 1))
             rest == From(lines[i], c + 1)
             lead == RunEnd(rest, 1, (0..255) \ {32, 9})
             value == SubSeq(rest, lead + 1, RunEnd(rest, lead + 1, {CR, LF}))
         IN  IF c = 0 \/ \E k \in 1..(c - 1) : lines[i][k] \notin (33..126)
             THEN None          \* not a header line: the headers end here
             ELSE IF field = name THEN Some(value)
             ELSE PartHeader(lines, name, i + 1)

\* read_multi: skip to the first line that is the delimiter; the index after
\* it (Len + 1 when no line is)
RECURSIVE SkipToBoundary(_, _, _)
SkipToBoundary(lines, ib, i) ==
    IF i > Len(lines) THEN i
    ELSE IF Strip(lines[i]) = DASHDASH \o ib THEN i + 1
    ELSE SkipToBoundary(lines, ib, i + 1)

\* read_multi: the header block from line i: the index of its last line, the
\* first blank line (or the last line of the file)
RECURSIVE HeaderEnd(_, _)
HeaderEnd(lines, i) ==
    IF i >= Len(lines) THEN Len(lines)
    ELSE IF Strip(lines[i]) = <<>> THEN i
    ELSE HeaderEnd(lines, i + 1)

\* read_lines_to_outerboundary from line i: [data, next, done]
RECURSIVE ReadLinesToOuterBoundary(_, _, _, _, _, _)
ReadLinesToOuterBoundary(lines, ob, i, delim, last_line_lfend, data) ==
    IF i > Len(lines) THEN [data |-> data, next |-> i, done |-> -1]
    ELSE LET line == IF delim = <<CR>> THEN delim \o lines[i] ELSE lines[i]
             odelim == IF delim = <<CR>> THEN <<>> ELSE delim
             stripped == RStrip(line)
         IN  IF StartsWith(line, DASHDASH) /\ last_line_lfend
                /\ stripped = DASHDASH \o ob
             THEN [data |-> data, next |-> i + 1, done |-> 0]
             ELSE IF StartsWith(line, DASHDASH) /\ last_line_lfend
                     /\ stripped = DASHDASH \o ob \o DASHDASH
             THEN [data |-> data, next |-> i + 1, done |-> 1]
             ELSE IF EndsWith(line, CRLF)
             THEN ReadLinesToOuterBoundary(lines, ob, i + 1, CRLF, TRUE,
                      data \o odelim \o SubSeq(line, 1, Len(line) - 2))
             ELSE IF EndsWith(line, <<LF>>)
             THEN ReadLinesToOuterBoundary(lines, ob, i + 1, <<LF>>, TRUE,
                      data \o odelim \o SubSeq(line, 1, Len(line) - 1))
             ELSE IF EndsWith(line, <<CR>>)
             THEN ReadLinesToOuterBoundary(lines, ob, i + 1, <<CR>>, FALSE,
                      data \o odelim \o SubSeq(line, 1, Len(line) - 1))
             ELSE ReadLinesToOuterBoundary(lines, ob, i + 1, <<>>, FALSE,
                      data \o odelim \o line)

\* the options of a part's Content-Disposition header
DispositionOptions(cd) == IF IsNone(cd) THEN <<>> ELSE parse_header(cd.val).opts

\* FieldStorage of one part, from the options of its Content-Disposition and
\* its Content-Type header: the type is text/plain when it has none
PartWith(opts, ct, data) ==
    [name |-> PdictGet(opts, NAME, Len(opts)),
     filename |-> PdictGet(opts, FILENAME, Len(opts)),
     type |-> IF IsNone(ct) THEN TEXT_PLAIN ELSE parse_header(ct.val).key,
     data |-> data]

\* FieldStorage of one part: name, filename and type from its headers
PartOf(hdr, data) ==
    PartWith(DispositionOptions(PartHeader(hdr, CONTENT_DISPOSITION, 1)),
             PartHeader(hdr, CONTENT_TYPE, 1), data)

RECURSIVE ReadParts(_, _, _)

\* read_multi: the part of headers hdr whose data was read as r, and the parts
\* after it unless r ended at the closing delimiter or at end of file
PartsFrom(lines, ib, hdr, r) ==
    <<PartOf(hdr, r.data)>>
    \o (IF r.done # 0 THEN <<>> ELSE ReadParts(lines, ib, r.next))

\* read_multi: the parts from line i on
ReadParts(lines, ib, i) ==
    IF i > Len(lines) THEN <<>>
    ELSE LET h == HeaderEnd(lines, i)
         IN  PartsFrom(lines, ib, SubSeq(lines, i, h),
                       ReadLinesToOuterBoundary(lines, ib, h + 1, <<>>, TRUE, <<>>))

\* read_multi: the boundary must be valid; the parts follow the first
\* delimiter line
ReadMulti(lines, b) ==
    IF IsNone(b) \/ ~valid_boundary(b.val)
    THEN Raise("Invalid boundary in multipart form")
    ELSE Ok(ReadParts(lines, b.val, SkipToBoundary(lines, b.val, 1)))

\* FieldStorage.__init__ with the parsed CONTENT_TYPE: only multipart/* has
\* a list of fields
FieldStorageOf(lines, h) ==
    IF SubSeq(h.key, 1, Min(10, Len(h.key))) # MULTIPART_SLASH
    THEN Raise("not indexable")
    ELSE ReadMulti(lines, PdictGet(h.opts, BOUNDARY, Len(h.opts)))

\* form = cgi.FieldStorage(fp=fp, environ=environ, keep_blank_values=True):
\* form.list, or the exception it raises
FieldStorage(body_bytes, content_type) ==
    FieldStorageOf(Lines(body_bytes), parse_header(content_type))

\* for key in form.keys(): field = form[key]; the parts the loop can stop at:
\* the only part of their name, with a non-empty filename.  keys() is
\* list(set(...)), whose order is not fixed, so any of them may come first.
FileFields(list) ==
    {i \in 1..Len(list) :
        /\ \A j \in 1..Len(list) : list[j].name = list[i].name => j = i
        /\ Truthy(list[i].filename)}


(***************************************************************************)
(* upload_handler.py, lines 97-162: the manual parser, run when cgi found  *)
(* no file data or no filename.                                            *)
(***************************************************************************)
\* header_part.decode('utf-8', errors='ignore'): ASCII bytes are kept; bytes
\* that do not form UTF-8 are dropped (well-formed multi-byte sequences, which
\* the headers modelled here never hold, are not modelled)
DecodeIgnore(bs) == SelectSeq(bs, LAMBDA c : c < 128)

\* Remove leading CRLF (lines 113-116)
StripLeadingNewline(part) ==
    IF StartsWith(part, CRLF) THEN From(part, 3)
    ELSE IF StartsWith(part, <<LF>>) THEN From(part, 2)
    ELSE part

\* Find header/body separator (lines 119-125): the separator or <<>>
SeparatorOf(part) ==
    IF Contains(part, CRLF \o CRLF) THEN CRLF \o CRLF
    ELSE IF Contains(part, <<LF, LF>>) THEN <<LF, LF>>
    ELSE <<>>

\* Remove trailing boundary marker and CRLF (lines 149-158)
TrimBody(body_part) ==
    LET a == IF EndsWith(body_part, DASHDASH \o CRLF)
             THEN SubSeq(body_part, 1, Len(body_part) - 4)
             ELSE IF EndsWith(body_part, DASHDASH)
             THEN SubSeq(body_part, 1, Len(body_part) - 2)
             ELSE body_part
    IN  IF EndsWith(a, CRLF) THEN SubSeq(a, 1, Len(a) - 2)
        ELSE IF EndsWith(a, <<LF>>) THEN SubSeq(a, 1, Len(a) - 1)
        ELSE a

\* Skip empty parts and end marker (line 109)
SkipPart(part) ==
    part = <<>> \/ Strip(part) \in {<<>>, DASHDASH, DASHDASH \o CRLF}

\* Extract filename (lines 135-140): the quoted form, else the bare form
FilenameMatch(headers_str) ==
    LET q == FilenameQuotedSearch(headers_str, 1)
    IN  IF IsNone(q) THEN FilenameBareSearch(headers_str, 1) ELSE q

\* header_part, body_part = part.split(separator, 1) (line 127)
HeaderPart(part) == SubSeq(part, 1, Find(part, SeparatorOf(part), 1) - 1)

BodyPart(part) ==
    From(part, Find(part, SeparatorOf(part), 1) + Len(SeparatorOf(part)))

\* if match: name = match.group(1): the match, or what the name held
Matched(match, held) == IF IsNone(match) THEN held ELSE match

\* ct_match.group(1).strip()
StripMatch(match) == IF IsNone(match) THEN match ELSE Some(Strip(match.val))

\* lines 134-162 on the part that carries filename=
FilePart(headers_str, body_part, filename, content_type_file) ==
    [file_data |-> Some(TrimBody(body_part)),
     filename |-> Matched(FilenameMatch(headers_str), filename),
     content_type_file |-> Matched(StripMatch(ContentTypeSearch(headers_str, 1)),
                                   content_type_file)]

RECURSIVE ManualParts(_, _, _, _, _)

\* lines 118-162 on part i, its leading newline removed: the loop goes on when
\* the part has no separator or no filename=, and stops at the file otherwise
ManualPart(parts, i, file_data, filename, content_type_file, part) ==
    IF SeparatorOf(part) = <<>>
       \/ ~Contains(DecodeIgnore(HeaderPart(part)), FILENAME_EQ)
    THEN ManualParts(parts, i + 1, file_data, filename, content_type_file)
    ELSE FilePart(DecodeIgnore(HeaderPart(part)), BodyPart(part), filename,
                  content_type_file)

\* for part in parts (lines 107-162), from part i, with the filename and
\* content type the cgi pass left: [file_data, filename, content_type_file]
ManualParts(parts, i, file_data, filename, content_type_file) ==
    IF i > Len(parts)
    THEN [file_data |-> file_data, filename |-> filename,
          content_type_file |-> content_type_file]
    ELSE IF SkipPart(parts[i])
    THEN ManualParts(parts, i + 1, file_data, filename, content_type_file)
    ELSE ManualPart(parts, i, file_data, filename, content_type_file,
                    StripLeadingNewline(parts[i]))

\* boundary_bytes = ('--' + boundary).encode('latin-1');
\* parts = body_bytes.split(boundary_bytes); the loop over parts
ManualParse(body_bytes, boundary, filename, content_type_file) ==
    ManualParts(Split(body_bytes, DASHDASH \o boundary), 1, None, filename,
                content_type_file)

(***************************************************************************)
(* upload_handler.py, lines 21-195: from the event to the file to store.   *)
(***************************************************************************)
\* if not file_data or not filename
NoFile(r) == ~Truthy(r.file_data) \/ ~Truthy(r.filename)

\* lines 83-95: what the loop over form.keys() leaves when it stops at part k
\* of the form (k = 0: no field has a filename)
CgiFound(list, k) ==
    IF k = 0
    THEN [file_data |-> None, filename |-> None, content_type_file |-> None]
    ELSE [file_data |-> Some(list[k].data),
          filename |-> list[k].filename,
          content_type_file |-> IF list[k].type # <<>> THEN Some(list[k].type)
                                ELSE None]

\* ext = filename.split('.')[-1].lower() if '.' in filename else default
Extension(filename, default) ==
    LET pieces == Split(filename, DOT)
    IN  IF Contains(filename, DOT) THEN Lower(pieces[Len(pieces)]) ELSE default

\* Determine content type if not set (lines 177-189)
ContentTypeFor(content_type_file, filename) ==
    IF Truthy(content_type_file) THEN content_type_file.val
    ELSE MapGet(content_type_map, Extension(filename, <<>>), OCTET_STREAM)

\* a defect to measure the claims against: lines 164-174 missing, so that
\* line 195 meets filename = None
FileOfUnchecked(r, via) ==
    IF NoFile(r)
    THEN [kind |-> "raise", msg |-> "argument of type 'NoneType' is not iterable"]
    ELSE [kind |-> "file",
          via |-> via,
          filename |-> r.filename.val,
          file_data |-> r.file_data.val,
          content_type_file |-> ContentTypeFor(r.content_type_file, r.filename.val),
          file_extension |-> Extension(r.filename.val, BIN)]

\* lines 164-195 on what the two passes left: the 400 outcome or the file to
\* store (via: the pass that found it)
FileOf(r, via) ==
    IF NoFile(r) THEN [kind |-> "no_file"]
    ELSE [kind |-> "file",
          via |-> via,
          filename |-> r.filename.val,
          file_data |-> r.file_data.val,
          content_type_file |-> ContentTypeFor(r.content_type_file, r.filename.val),
          file_extension |-> Extension(r.filename.val, BIN)]

\* lines 97-195 once cgi has parsed: the manual parser runs when the cgi pass
\* left no file data or no filename
Found(body_bytes, boundary, cgi) ==
    IF NoFile(cgi)
    THEN FileOf(ManualParse(body_bytes, boundary, cgi.filename,
                            cgi.content_type_file), "manual")
    ELSE FileOf(cgi, "cgi")

\* a defect to measure the claims against: line 69 without its strip('"')
BoundaryTokenQuoted(match) == match

\* boundary = boundary_match.group(1).strip('"') (line 69)
BoundaryToken(match) == StripQuotes(match)

\* the parts the loop of lines 88-95 can stop at, 0 when at none
Picks(list) == IF FileFields(list) = {} THEN {0} ELSE FileFields(list)

\* lines 81-195: the outcomes once cgi.FieldStorage has returned or raised
Files(body_bytes, boundary, form) ==
    IF form.tag = "raise"
    THEN {[kind |-> "raise", msg |-> form.msg]}
    ELSE {Found(body_bytes, boundary, CgiFound(form.val, k)) : k \in Picks(form.val)}

\* lines 21-195: the outcomes of parsing the event; more than one only when
\* several fields of the form carry a file
Extract(event) ==
    LET content_type == ContentTypeOf(event)
        body_bytes == BodyBytesOf(event)
        boundary_match == BoundarySearch(content_type.val, 1)
    IN  IF content_type.tag = "raise"
        THEN {[kind |-> "raise", msg |-> content_type.msg]}
        ELSE IF ~Contains(content_type.val, MULTIPART_FORM_DATA)
        THEN {[kind |-> "bad_content_type"]}
        ELSE IF body_bytes.tag = "raise"
        THEN {[kind |-> "raise", msg |-> body_bytes.msg]}
        ELSE IF IsNone(boundary_match)
        THEN {[kind |-> "no_boundary"]}
        ELSE Files(body_bytes.val, BoundaryToken(boundary_match.val),
                   FieldStorage(body_bytes.val, content_type.val))


(***************************************************************************)
(* Bounds of the model.                                                    *)
(***************************************************************************)
\* uploads that reach uuid4(): each draws a fresh id
MaxUploads == 2
\* the longest payload of the enumerated payloads
MaxLen == 3

(***************************************************************************)
(* The collaborators: the S3 bucket, the DynamoDB table, uuid4.            *)
(***************************************************************************)
VARIABLES
    bucket,     \* S3: the objects of BUCKET_NAME, a function from Key
    table,      \* DynamoDB: the items of TABLE_NAME, a function from imageId
    nextId,     \* the number of uuid4() values drawn so far
    event,      \* the event of the last invocation
    handler,    \* the handler that ran last: "none", "upload", "get", "list"
    calls,      \* the storage and metadata calls of the last invocation
    resp        \* the response of the last invocation

vars == <<bucket, table, nextId, event, handler, calls, resp>>

BUCKET_NAME == B("bucket")
ExpiresIn == 3600

\* str(uuid.uuid4()): the n-th value drawn; distinct draws are distinct
Uuid(n) == B("uuid-") \o <<48 + n>>

\* s3.generate_presigned_url('get_object', Params={Bucket, Key}, ExpiresIn)
PresignedUrl(key) == [Bucket |-> BUCKET_NAME, Key |-> key, ExpiresIn |-> ExpiresIn]

\* one call of the last invocation, and whether it returned or raised
Call(op, arg, ok) == [op |-> op, arg |-> arg, ok |-> ok]

\* the except clause of each handler (the last lines of each lambda_handler)
InternalError(msg) ==
    [statusCode |-> 500,
     body |-> [error |-> "Internal server error", message |-> msg]]

\* a 400 or 404 return
ClientError(status, error) == [statusCode |-> status, body |-> [error |-> error]]

BadContentType == ClientError(400, "Content-Type must be multipart/form-data")
NoBoundary == ClientError(400, "No boundary found in Content-Type")
NoFileUploaded ==
    ClientError(400, "No file uploaded. Please use form field name \"file\"")
MissingImageId == ClientError(400, "Missing image ID")
ImageNotFound == ClientError(404, "Image not found")

\* f with key k set to v
Put(f, k, v) == [x \in DOMAIN f \cup {k} |-> IF x = k THEN v ELSE f[x]]

(***************************************************************************)
(* POST /upload: upload_handler.lambda_handler(event, context).            *)
(* `fault` names the storage or metadata call that raises, if any.         *)
(***************************************************************************)
UploadFaults == {"none", "put_object", "put_item", "generate_presigned_url"}

\* a defect to measure the claims against: put_item called before put_object
WrittenItemFirst(fault) ==
    [item |-> fault # "put_item", object |-> fault \notin {"put_item", "put_object"}]

\* lines 201-226: put_object, then put_item; a call that raises leaves the
\* try block, so what precedes it is written and what follows it is not
Written(fault) ==
    [object |-> fault # "put_object", item |-> fault \notin {"put_object", "put_item"}]

\* lines 191-256: store the file x under a fresh id (uploadedAt, the time of
\* the call, is left out of the record and of the response)
Store(x, fault) ==
    LET image_id == Uuid(nextId)
        s3_key == IMAGES_PREFIX \o image_id \o DOT \o x.file_extension
        object == [Body |-> x.file_data, ContentType |-> x.content_type_file,
                   Metadata |-> [original_filename |-> x.filename,
                                 image_id |-> image_id]]
        item == [imageId |-> image_id, filename |-> x.filename,
                 contentType |-> x.content_type_file, s3Key |-> s3_key,
                 size |-> Len(x.file_data), bucket |-> BUCKET_NAME]
        c1 == Call("put_object", s3_key, fault # "put_object")
        c2 == Call("put_item", image_id, fault # "put_item")
        c3 == Call("generate_presigned_url", s3_key,
                   fault # "generate_presigned_url")
    IN  /\ nextId' = nextId + 1
        /\ bucket' = IF Written(fault).object THEN Put(bucket, s3_key, object)
                     ELSE bucket
        /\ table' = IF Written(fault).item THEN Put(table, image_id, item)
                    ELSE table
        /\ calls' = CASE fault = "put_object" -> <<c1>>
                      [] fault = "put_item" -> <<c1, c2>>
                      [] OTHER -> <<c1, c2, c3>>
        /\ resp' = IF fault # "none" THEN InternalError(fault)
                   ELSE [statusCode |-> 201,
                         body |-> [message |-> "Image uploaded successfully",
                                   imageId |-> image_id,
                                   filename |-> x.filename,
                                   s3Key |-> s3_key,
                                   downloadUrl |-> PresignedUrl(s3_key),
                                   size |-> Len(x.file_data),
                                   contentType |-> x.content_type_file]]

\* a defect to measure the claims against: an exception of the parsing
\* answered as a missing file
RejectAsNoFile(x) ==
    /\ resp' = CASE x.kind = "bad_content_type" -> BadContentType
                 [] x.kind = "no_boundary" -> NoBoundary
                 [] OTHER -> NoFileUploaded
    /\ calls' = <<>>
    /\ UNCHANGED <<bucket, table, nextId>>

\* the returns of lines 25-174 and of the except clause: nothing is stored
Reject(x) ==
    /\ resp' = CASE x.kind = "raise" -> InternalError(x.msg)
                 [] x.kind = "bad_content_type" -> BadContentType
                 [] x.kind = "no_boundary" -> NoBoundary
                 [] OTHER -> NoFileUploaded
    /\ calls' = <<>>
    /\ UNCHANGED <<bucket, table, nextId>>


(***************************************************************************)
(* The requests.  A multipart body is written the way a client library     *)
(* writes it: for each part the delimiter line, Content-Disposition, an    *)
(* optional Content-Type, a blank line, the data and a line end; then the  *)
(* closing delimiter.  nl is the line ending the client uses.              *)
(***************************************************************************)
Part(name, filename, ctype, data) ==
    [name |-> name, filename |-> filename, ctype |-> ctype, data |-> data]

DispositionLine == B("Content-Disposition: form-data; name=\"")
FilenameParam == B("; filename=\"")
ContentTypeLine == B("Content-Type: ")
BoundaryParam == B("; boundary=")

PartBytes(nl, bnd, part) ==
    DASHDASH \o bnd \o nl
    \o DispositionLine \o part.name \o <<QUOTE>>
    \o (IF IsNone(part.filename) THEN <<>>
        ELSE FilenameParam \o part.filename.val \o <<QUOTE>>)
    \o nl
    \o (IF IsNone(part.ctype) THEN <<>>
        ELSE ContentTypeLine \o part.ctype.val \o nl)
    \o nl \o part.data \o nl

RECURSIVE PartsBytes(_, _, _)
PartsBytes(nl, bnd, parts) ==
    IF parts = <<>> THEN <<>>
    ELSE PartBytes(nl, bnd, Head(parts)) \o PartsBytes(nl, bnd, Tail(parts))

Multipart(nl, bnd, parts) ==
    PartsBytes(nl, bnd, parts) \o DASHDASH \o bnd \o DASHDASH \o nl

\* the request's Content-Type header, its boundary token quoted or not
MultipartHeader(bnd, quoted) ==
    MULTIPART_FORM_DATA \o BoundaryParam
    \o (IF quoted THEN <<QUOTE>> \o bnd \o <<QUOTE>> ELSE bnd)

UploadEvent(headers, body, isBase64Encoded) ==
    [headers |-> headers, body |-> body, isBase64Encoded |-> isBase64Encoded,
     pathParameters |-> Absent, queryStringParameters |-> Absent]

\* a multipart request as API Gateway delivers it: the body as text, or
\* base64-encoded with isBase64Encoded set
MultipartEvent(nl, bnd, quoted, b64, parts) ==
    UploadEvent(Dict("content-type" :> MultipartHeader(bnd, quoted)),
                Str(IF b64 THEN B64Encode(Multipart(nl, bnd, parts))
                    ELSE Multipart(nl, bnd, parts)),
                b64)

\* every byte string over alphabet of length at most n
RECURSIVE SeqsUpTo(_, _)
SeqsUpTo(alphabet, n) ==
    IF n = 0 THEN {<<>>}
    ELSE LET shorter == SeqsUpTo(alphabet, n - 1)
         IN  shorter \cup {Append(t, c) : t \in shorter, c \in alphabet}

BND == B("abc123")
NewLines == {CRLF, <<LF>>}
\* payload bytes: a letter, CR, LF, '-'
PayloadBytes == {97, CR, LF, 45}
Payloads ==
    SeqsUpTo(PayloadBytes, MaxLen)
    \cup {<<0, 1, 2, 3, 4, 5, 6, 7, 8, 9, 10, 11>>, <<255, 0, 128>>}

Filenames ==
    {B("photo.png"), B("file.xyz"), B("a.bin"), B("x.jpg"), B("x.jpeg"),
     B("x.gif"), B("x.webp"), B("x.bmp"), B("x.svg"), B("x.pdf"), B("X.PNG"),
     B("noext"), B("a.b.gif"), <<>>}

FileField(filename, ctype, data) == Part(B("file"), Some(filename), ctype, data)
TextField(name, data) == Part(name, None, None, data)

\* one file part, every payload: the framing, the header's quoting and the
\* transport vary
OneFileEvents ==
    {MultipartEvent(nl, BND, quoted, b64, <<FileField(B("photo.png"), None, data)>>) :
        nl \in NewLines, quoted \in BOOLEAN, b64 \in BOOLEAN, data \in Payloads}

\* every filename, alone in the form (cgi finds it) and after a text field
\* of the same name (form[key] is a list and the manual parser runs)
FilenameEvents ==
    {MultipartEvent(nl, BND, FALSE, FALSE, lead \o <<FileField(filename, ctype, B("PNG"))>>) :
        nl \in NewLines, filename \in Filenames,
        ctype \in {None, Some(B("image/gif"))},
        lead \in {<<>>, <<TextField(B("file"), B("hello"))>>}}

\* forms of other shapes: no part, text fields only, a text field around the
\* file, two files
TextForms ==
    {<<>>,
     <<TextField(B("note"), B("hello"))>>,
     <<TextField(B("note"), B("a") \o CRLF \o CRLF \o B("b")), TextField(B("n2"), <<>>)>>}

OtherForms ==
    TextForms \cup
    {<<TextField(B("note"), B("hello")), FileField(B("a.bin"), None, B("PNG"))>>,
     <<TextField(B("file"), B("hello")), FileField(B("a.bin"), None, B("PNG"))>>,
     <<FileField(B("a.bin"), None, B("PNG")), TextField(B("note"), B("bye--"))>>,
     <<FileField(B("x.pdf"), None, <<>>), TextField(B("note"), B("bye"))>>,
     <<Part(B("f1"), Some(B("one.png")), None, B("1")),
       Part(B("f2"), Some(B("two.gif")), Some(B("image/gif")), B("22"))>>}

\* another boundary token, as browsers write them
BND2 == B("----x1")

FormEvents ==
    {MultipartEvent(nl, bnd, quoted, b64, parts) :
        nl \in NewLines, bnd \in {BND, BND2}, quoted \in BOOLEAN, b64 \in BOOLEAN,
        parts \in OtherForms}

\* requests that are not a multipart form: the headers absent, null, of
\* another type or without boundary; the body absent, null or not decodable
OddHeaders ==
    {Absent, Null, EmptyDict,
     Dict("content-type" :> B("text/plain")),
     Dict("Content-Type" :> B("application/json")),
     Dict("content-type" :> MULTIPART_FORM_DATA),
     Dict("Content-Type" :> MULTIPART_FORM_DATA \o B("; charset=utf-8")),
     Dict("Content-Type" :> MultipartHeader(BND, FALSE)),
     Dict("Content-Type" :> MultipartHeader(BND, TRUE)),
     Dict("content-type" :> <<>> @@ "Content-Type" :> MultipartHeader(BND, FALSE))}

SampleBody == Multipart(CRLF, BND, <<FileField(B("photo.png"), None, B("PNG"))>>)

OddBodies ==
    {<<Absent, FALSE>>, <<Null, FALSE>>, <<Str(<<>>), FALSE>>,
     <<Str(SampleBody), FALSE>>, <<Str(B64Encode(SampleBody)), TRUE>>,
     <<Str(B("abcde")), TRUE>>, <<Str(B("price ") \o <<8364>>), FALSE>>,
     <<Str(B("not a form")), FALSE>>}

OddEvents ==
    {UploadEvent(h, b[1], b[2]) : h \in OddHeaders, b \in OddBodies}

UploadEvents == OneFileEvents \cup FilenameEvents \cup FormEvents \cup OddEvents


\* the whole invocation on event ev; a step of it may fail as UploadFaults says
Upload(ev) ==
    /\ event' = ev
    /\ handler' = "upload"
    /\ \E x \in Extract(ev) :
          IF x.kind = "file"
          THEN nextId < MaxUploads /\ \E fault \in UploadFaults : Store(x, fault)
          ELSE Reject(x)

(***************************************************************************)
(* GET /images/{id}: get_handler.lambda_handler(event, context).           *)
(***************************************************************************)
GetFaults == {"none", "get_item", "generate_presigned_url"}

\* image_id = event.get('pathParameters', {}).get('id')
ImageIdOf(ev) == GetGet(ev.pathParameters, "id", Null)

\* if not image_id: None and '' are falsy
NoImageId(image_id) == image_id.tag = "null" \/ image_id.val = <<>>

\* json.dumps(..., cls=DecimalEncoder): DynamoDB returns the stored size as a
\* Decimal; it is whole, and the encoder writes it as the same int
DecimalEncoder(item) == item

\* a defect to measure the claims against: the record returned as stored
ImageBodyNoUrl(item) == DecimalEncoder(item)

\* lines 60-72: item['downloadUrl'] = download_url
ImageBody(item) ==
    [f \in DOMAIN item \cup {"downloadUrl"} |->
        IF f = "downloadUrl" THEN PresignedUrl(item.s3Key)
        ELSE DecimalEncoder(item)[f]]

Get(ev, fault) ==
    LET image_id == ImageIdOf(ev)
        id == image_id.val.val
        c1 == Call("get_item", id, fault # "get_item")
        item == table[id]
        c2 == Call("generate_presigned_url", item.s3Key,
                   fault # "generate_presigned_url")
    IN  /\ event' = ev
        /\ handler' = "get"
        /\ UNCHANGED <<bucket, table, nextId>>
        /\ IF image_id.tag = "raise"
           THEN fault = "none" /\ calls' = <<>> /\ resp' = InternalError(image_id.msg)
           ELSE IF NoImageId(image_id.val)
           THEN fault = "none" /\ calls' = <<>> /\ resp' = MissingImageId
           ELSE IF fault = "get_item"
           THEN calls' = <<c1>> /\ resp' = InternalError(fault)
           ELSE IF id \notin DOMAIN table
           THEN fault = "none" /\ calls' = <<c1>> /\ resp' = ImageNotFound
           ELSE IF fault = "generate_presigned_url"
           THEN calls' = <<c1, c2>> /\ resp' = InternalError(fault)
           ELSE /\ calls' = <<c1, c2>>
                /\ resp' = [statusCode |-> 200, body |-> [image |-> ImageBody(item)]]

(***************************************************************************)
(* GET /images: list_handler.lambda_handler(event, context).               *)
(***************************************************************************)
DefaultLimit == 50

IsDigit(c) == c \in 48..57

\* the value of a string of decimal digits
RECURSIVE DigitsValue(_)
DigitsValue(ds) ==
    IF ds = <<>> THEN 0
    ELSE 10 * DigitsValue(SubSeq(ds, 1, Len(ds) - 1)) + (ds[Len(ds)] - 48)

\* int(s) of a str: blanks around, a sign, decimal digits; else ValueError
IntOfStr(s) ==
    LET t == Strip(s)
        signed == t # <<>> /\ t[1] \in {43, 45}
        ds == IF signed THEN Tail(t) ELSE t
    IN  IF ds = <<>> \/ \E i \in 1..Len(ds) : ~IsDigit(ds[i])
        THEN Raise("invalid literal for int() with base 10")
        ELSE Ok(IF signed /\ t[1] = 45 THEN 0 - DigitsValue(ds) ELSE DigitsValue(ds))

\* params = event.get('queryStringParameters') or {}
\* limit = int(params.get('limit', 50))
LimitOf(ev) ==
    LET params == IF ev.queryStringParameters.tag \in {"absent", "null"}
                     \/ DOMAIN ev.queryStringParameters.d = {}
                  THEN EmptyDict ELSE ev.queryStringParameters
    IN  IF "limit" \in DOMAIN params.d THEN IntOfStr(params.d["limit"])
        ELSE Ok(DefaultLimit)

\* table.scan(Limit=limit): Limit must be at least 1 (the request is refused
\* otherwise); the scan stops after Limit items.  The results: the sets of
\* ids a scan may return
Scan(limit) ==
    {ids \in SUBSET DOMAIN table :
        Cardinality(ids) = Min(limit, Cardinality(DOMAIN table))}

\* the elements of a finite set in some order
RECURSIVE SeqOf(_)
SeqOf(S) ==
    IF S = {} THEN <<>>
    ELSE LET x == CHOOSE y \in S : TRUE IN <<x>> \o SeqOf(S \ {x})

\* lines 44-58: the item with its downloadUrl, None when presigning raised
WithDownloadUrl(item, ok) ==
    [f \in DOMAIN item \cup {"downloadUrl"} |->
        IF f # "downloadUrl" THEN DecimalEncoder(item)[f]
        ELSE IF ok THEN Some(PresignedUrl(item.s3Key)) ELSE None]

\* scanFails: table.scan raises; urlFails: the ids whose presigning raises
List(ev, scanFails, urlFails) ==
    LET limit == LimitOf(ev)
        c1 == Call("scan", limit.val, ~scanFails /\ limit.val >= 1)
    IN  /\ event' = ev
        /\ handler' = "list"
        /\ UNCHANGED <<bucket, table, nextId>>
        /\ IF limit.tag = "raise"
           THEN /\ ~scanFails /\ urlFails = {}
                /\ calls' = <<>>
                /\ resp' = InternalError(limit.msg)
           ELSE IF scanFails \/ limit.val < 1
           THEN /\ urlFails = {}
                /\ calls' = <<c1>>
                /\ resp' = InternalError("scan")
           ELSE \E ids \in Scan(limit.val) :
                /\ urlFails \subseteq ids
                /\ calls' = <<c1>> \o
                     [k \in 1..Cardinality(ids) |->
                        Call("generate_presigned_url", table[SeqOf(ids)[k]].s3Key,
                             SeqOf(ids)[k] \notin urlFails)]
                /\ resp' = [statusCode |-> 200,
                            body |-> [count |-> Cardinality(ids),
                                      images |-> {WithDownloadUrl(table[i], i \notin urlFails)
                                                  : i \in ids}]]



(***************************************************************************)
(* The service: any sequence of invocations of the three handlers.         *)
(***************************************************************************)
\* the uploads of the service runs: a file cgi finds, a file the manual parser
\* finds (over base64, bare LF, a quoted boundary), and rejected requests
ServiceUploads ==
    {MultipartEvent(CRLF, BND, FALSE, FALSE, <<FileField(B("photo.png"), None, B("PNG"))>>),
     MultipartEvent(<<LF>>, BND, TRUE, TRUE,
         <<TextField(B("file"), B("hello")), FileField(B("a.bin"), None, B("a"))>>),
     MultipartEvent(CRLF, BND, FALSE, FALSE, <<TextField(B("note"), B("hello"))>>),
     UploadEvent(Null, Str(SampleBody), FALSE),
     UploadEvent(Dict("content-type" :> B("text/plain")), Str(SampleBody), FALSE),
     UploadEvent(Dict("content-type" :> MULTIPART_FORM_DATA), Str(SampleBody), FALSE)}

GetEvent(pathParameters) ==
    [headers |-> Absent, body |-> Absent, isBase64Encoded |-> FALSE,
     pathParameters |-> pathParameters, queryStringParameters |-> Absent]

\* GET /images/{id}: no path parameters, null, no id, an empty id, and every
\* id an upload can have drawn plus one none has
GetEvents ==
    {GetEvent(p) : p \in {Absent, Null, EmptyDict, Dict("id" :> Null),
                          Dict("id" :> Str(<<>>))}}
    \cup {GetEvent(Dict("id" :> Str(Uuid(n)))) : n \in 0..MaxUploads}

ListEvent(queryStringParameters) ==
    [headers |-> Absent, body |-> Absent, isBase64Encoded |-> FALSE,
     pathParameters |-> Absent, queryStringParameters |-> queryStringParameters]

\* GET /images: no query string, null, and limit=...
ListEvents ==
    {ListEvent(q) : q \in {Absent, Null}}
    \cup {ListEvent(Dict("limit" :> l)) :
            l \in {B("0"), B("1"), B("2"), B("-1"), B("abc")}}

NoEvent == [tag |-> "none"]
NoResponse == [statusCode |-> 0]

Init ==
    /\ bucket = <<>>
    /\ table = <<>>
    /\ nextId = 0
    /\ event = NoEvent
    /\ handler = "none"
    /\ calls = <<>>
    /\ resp = NoResponse

UploadRequest == \E ev \in ServiceUploads : Upload(ev)

GetRequest == \E ev \in GetEvents, fault \in GetFaults : Get(ev, fault)

ListRequest ==
    \E ev \in ListEvents, scanFails \in BOOLEAN, urlFails \in SUBSET DOMAIN table :
        List(ev, scanFails, urlFails)

Next == UploadRequest \/ GetRequest \/ ListRequest

Spec == Init /\ [][Next]_vars

(***************************************************************************)
(* One upload: a request of UploadEvents arrives at the service as         *)
(* constructed and the upload handler runs on it.                          *)
(***************************************************************************)
InitUpload ==
    /\ bucket = <<>>
    /\ table = <<>>
    /\ nextId = 0
    /\ event \in UploadEvents
    /\ handler = "none"
    /\ calls = <<>>
    /\ resp = NoResponse

HandleUpload == handler = "none" /\ Upload(event)

SpecUpload == InitUpload /\ [][HandleUpload]_vars

(***************************************************************************)
(* The claims.                                                             *)
(***************************************************************************)
\* every storage and metadata call of the last invocation returned
AllReturned == \A k \in 1..Len(calls) : calls[k].ok

\* the requests whose only part is a file named photo.png, each with the
\* payload it carries
OneFileCases ==
    {[ev |-> MultipartEvent(nl, BND, quoted, b64,
                            <<FileField(B("photo.png"), None, data)>>),
      data |-> data] :
        nl \in NewLines, quoted \in BOOLEAN, b64 \in BOOLEAN, data \in Payloads}

\* C1: a body with exactly one file part of payload P, framed with CRLF or
\* with bare LF, is stored byte for byte: the Body given to put_object is P
\* and the echoed size is Len(P).  Stated for the payloads of at least one
\* byte (an empty payload is answered 400 'No file uploaded')
C1_PayloadRecovered ==
    (handler = "upload" /\ AllReturned) =>
        \A c \in OneFileCases :
            (event = c.ev /\ c.data # <<>>) =>
                /\ resp.statusCode = 201
                /\ resp.body.size = Len(c.data)
                /\ bucket[resp.body.s3Key].Body = c.data

\* the request whose file part is named filename and has no Content-Type,
\* alone or after a text field of the same name
UntypedFileEvent(nl, filename, lead) ==
    MultipartEvent(nl, BND, FALSE, FALSE, lead \o <<FileField(filename, None, B("PNG"))>>)

\* C2: when the file part has no Content-Type of its own, the content type
\* of the object, of the record and of the response is the one the table
\* gives the filename's extension, application/octet-stream when it has none
C2_TypeFromExtension ==
    (handler = "upload" /\ resp.statusCode = 201) =>
        \A nl \in NewLines, filename \in Filenames,
           lead \in {<<>>, <<TextField(B("file"), B("hello"))>>} :
            event = UntypedFileEvent(nl, filename, lead) =>
                LET t == MapGet(content_type_map, Extension(filename, <<>>), OCTET_STREAM)
                IN  /\ resp.body.contentType = t
                    /\ bucket[resp.body.s3Key].ContentType = t
                    /\ table[resp.body.imageId].contentType = t

\* the request names multipart/form-data with a boundary and its body decodes
HasBoundary(ev) ==
    /\ ContentTypeOf(ev).tag = "ok"
    /\ Contains(ContentTypeOf(ev).val, MULTIPART_FORM_DATA)
    /\ ~IsNone(BoundarySearch(ContentTypeOf(ev).val, 1))
    /\ BodyBytesOf(ev).tag = "ok"

C4_NoBoundaryOutcome ==
    (/\ handler = "upload"
     /\ ContentTypeOf(event).tag = "ok"
     /\ Contains(ContentTypeOf(event).val, MULTIPART_FORM_DATA)
     /\ ~Contains(ContentTypeOf(event).val, BOUNDARY_EQ))
    => resp = ClientError(400, "No boundary found in Content-Type")

\* the request of GET /images/{id} names an id
HasId(ev) ==
    /\ ev.pathParameters.tag = "dict"
    /\ "id" \in DOMAIN ev.pathParameters.d
    /\ ev.pathParameters.d["id"].tag = "str"
    /\ ev.pathParameters.d["id"].val # <<>>

RequestedId == event.pathParameters.d["id"].val

\* C5: GET /images/{id} answers an id without record 404 'Image not found'
\* and never presigns for it; an id with a record 200 with the record and a
\* downloadUrl of its object (the calls made returning)
C5_GetByIdentifier ==
    (handler = "get" /\ HasId(event)) =>
        IF RequestedId \notin DOMAIN table
        THEN /\ \A k \in 1..Len(calls) : calls[k].op # "generate_presigned_url"
             /\ AllReturned => resp = ClientError(404, "Image not found")
        ELSE AllReturned =>
             /\ resp.statusCode = 200
             /\ \A f \in DOMAIN table[RequestedId] :
                    resp.body.image[f] = table[RequestedId][f]
             /\ "downloadUrl" \in DOMAIN resp.body.image
             /\ resp.body.image["downloadUrl"].Key = table[RequestedId].s3Key

\* the record of a stored image was returned with its downloadUrl
C5_Witness ==
    /\ handler = "get"
    /\ HasId(event)
    /\ RequestedId \in DOMAIN table
    /\ resp.statusCode = 200
    /\ Len(calls) = 2

\* the request of GET /images gives limit as a string of digits
HasLimit(ev) ==
    /\ ev.queryStringParameters.tag = "dict"
    /\ "limit" \in DOMAIN ev.queryStringParameters.d
    /\ ev.queryStringParameters.d["limit"] # <<>>
    /\ \A i \in 1..Len(ev.queryStringParameters.d["limit"]) :
            IsDigit(ev.queryStringParameters.d["limit"][i])

\* C6: GET /images?limit=k on a table of n >= k records returns exactly k
\* items with count = k, each with a downloadUrl; without limit the scan is
\* asked for 50 (the calls returning, a scan refused for its Limit aside)
C6_ListLimit ==
    (/\ handler = "list"
     /\ \A c \in 1..Len(calls) :
            calls[c].ok \/ (calls[c].op = "scan" /\ calls[c].arg < 1))
    => /\ HasLimit(event) =>
            LET k == DigitsValue(event.queryStringParameters.d["limit"])
            IN  Cardinality(DOMAIN table) >= k =>
                    /\ resp.statusCode = 200
                    /\ resp.body.count = k
                    /\ Cardinality(resp.body.images) = k
                    /\ \A img \in resp.body.images : img["downloadUrl"] # None
       /\ event.queryStringParameters.tag \in {"absent", "null"} =>
            /\ Len(calls) >= 1
            /\ calls[1] = Call("scan", 50, TRUE)

\* the upload request does not name multipart/form-data: no headers, null
\* headers, or another Content-Type
NotMultipart(ev) ==
    \/ ev.headers.tag \in {"absent", "null"}
    \/ /\ ev.headers.tag = "dict"
       /\ \A h \in DOMAIN ev.headers.d : ~Contains(ev.headers.d[h], MULTIPART_FORM_DATA)

\* the request of GET /images/{id} has no id
IdMissing(ev) ==
    \/ ev.pathParameters.tag \in {"absent", "null"}
    \/ ev.pathParameters.tag = "dict" /\ "id" \notin DOMAIN ev.pathParameters.d

\* C7: validation failures are answered 400, never 500: GET /images/{id}
\* without id (pathParameters absent, null or without id) 400 'Missing image
\* ID'; an upload that does not name multipart/form-data (headers absent or
\* null included) 400
C7_ValidationIs400 ==
    /\ (handler = "get" /\ IdMissing(event))
            => resp = ClientError(400, "Missing image ID")
    /\ (handler = "upload" /\ NotMultipart(event)) => resp.statusCode = 400

\* reading the request raised before any call was made
ParsingRaised ==
    \/ handler = "upload" /\ \E x \in Extract(event) : x.kind = "raise"
    \/ handler = "get" /\ ImageIdOf(event).tag = "raise"
    \/ handler = "list" /\ LimitOf(event).tag = "raise"

\* call k of the last invocation is a presigning by the list handler
ListPresign(k) == handler = "list" /\ calls[k].op = "generate_presigned_url"

\* C8 as the specification states it: whichever call raises, in whichever
\* handler, the invocation returns a 500 response
C8_AnyExceptionIs500 ==
    (ParsingRaised \/ ~AllReturned) => resp.statusCode = 500

\* C8: an exception of the parsing or of a storage or metadata call is
\* answered 500 'Internal server error', except that the list handler
\* answers 200 when only presignings raised, the downloadUrl of those items
\* being null; every invocation returns a response
C8_ExceptionsCaught ==
    /\ handler # "none" => resp.statusCode \in {200, 201, 400, 404, 500}
    /\ (ParsingRaised \/ \E k \in 1..Len(calls) : ~calls[k].ok /\ ~ListPresign(k))
            => /\ resp.statusCode = 500
               /\ resp.body.error = "Internal server error"
    /\ (/\ handler = "list"
        /\ ~ParsingRaised
        /\ \A k \in 1..Len(calls) : calls[k].ok \/ ListPresign(k))
            => /\ resp.statusCode = 200
               /\ \A k \in 1..Len(calls) :
                    ListPresign(k) =>
                        \E img \in resp.body.images :
                            /\ img.s3Key = calls[k].arg
                            /\ (img["downloadUrl"] = None) = ~calls[k].ok

\* the list handler answered 200 although a presigning raised
C8_Witness ==
    /\ handler = "list"
    /\ \E k \in 1..Len(calls) : ~calls[k].ok
    /\ resp.statusCode = 200
    /\ \E img \in resp.body.images : img["downloadUrl"] = None

\* the same request with its boundary token written without quotes
Unquoted(ev, bnd) ==
    [ev EXCEPT !.headers = Dict("content-type" :> MultipartHeader(bnd, FALSE))]

\* the state is what the handler leaves when the extraction gave x
Answers(x) ==
    CASE x.kind = "file" ->
            AllReturned =>
                /\ resp.statusCode = 201
                /\ resp.body.filename = x.filename
                /\ resp.body.contentType = x.content_type_file
                /\ bucket[resp.body.s3Key].Body = x.file_data
      [] x.kind = "raise" -> resp.statusCode = 500
      [] x.kind = "bad_content_type" ->
            resp = ClientError(400, "Content-Type must be multipart/form-data")
      [] x.kind = "no_boundary" ->
            resp = ClientError(400, "No boundary found in Content-Type")
      [] OTHER -> resp.statusCode = 400 /\ calls = <<>>

\* C9: with the header's boundary="t" the extraction gives what it gives
\* with boundary=t for the same body (filename, content type, payload, or
\* the failure), and the handler answers accordingly
C9_QuotedBoundary ==
    handler = "upload" =>
        \A bnd \in {BND, BND2} :
            ContentTypeOf(event) = Ok(MultipartHeader(bnd, TRUE)) =>
                LET unquoted == Extract(Unquoted(event, bnd))
                IN  /\ Extract(event) = unquoted
                    /\ \E x \in unquoted : Answers(x)

\* a file was stored from a request with a quoted boundary that the manual
\* parser had to split
C9_Witness ==
    /\ handler = "upload"
    /\ ContentTypeOf(event) = Ok(MultipartHeader(BND, TRUE))
    /\ resp.statusCode = 201
    /\ \E x \in Extract(event) : x.kind = "file" /\ x.via = "manual"

\* every record of the table refers to an object of the bucket, of its size
RecordsHaveObjects ==
    \A id \in DOMAIN table :
        /\ table[id].s3Key \in DOMAIN bucket
        /\ Len(bucket[table[id].s3Key].Body) = table[id].size

\* put_item is called only after put_object returned
PutObjectFirst ==
    \A k \in 1..Len(calls) :
        calls[k].op = "put_item" =>
            \E j \in 1..(k - 1) : calls[j] = [calls[j] EXCEPT !.op = "put_object", !.ok = TRUE]

\* an upload answered 400 writes nothing; one whose put_object raised writes
\* no record
UploadWrites ==
    handler' = "upload" =>
        /\ resp'.statusCode = 400 => UNCHANGED <<bucket, table>>
        /\ (\E k \in 1..Len(calls') : calls'[k].op = "put_object" /\ ~calls'[k].ok)
                => UNCHANGED <<bucket, table>>

\* C10: whichever calls fail, every record of the table refers by its s3Key
\* to an object of the bucket of the same size; put_object precedes
\* put_item; a 400 writes nothing; no record is written when put_object
\* raised
C10_RecordsAfterObjects ==
    /\ [](RecordsHaveObjects /\ PutObjectFirst)
    /\ [][UploadWrites]_vars

\* a record is in the table, and an upload whose put_item raised has left an
\* object without record
C10_Witness ==
    /\ handler = "upload"
    /\ resp.statusCode = 500
    /\ DOMAIN table # {}
    /\ Cardinality(DOMAIN bucket) > Cardinality(DOMAIN table)

=============================================================================
